---- MODULE Spec2Model ----
(***************************************************************************)
(* Model of the go-pilosa client: the Cluster endpoint registry            *)
(* (cluster.go) and the Client request dispatcher (client.go).             *)
(*                                                                         *)
(* Every public operation is one action.  Besides the program state        *)
(* (hosts, nextIndex) the model keeps history variables that record what   *)
(* the callers and the transport have observed.                            *)
(***************************************************************************)
EXTENDS Integers, Sequences, FiniteSets, TLC

VARIABLES
    hosts,      \* Cluster.hosts: sequence of URI values
    nextIndex,  \* Cluster.nextIndex
    returned,   \* history: result of every GetHost call since NewCluster
    mutated,    \* history: AddHost/RemoveHost was called after some GetHost call
    net,        \* environment: how the network and the server answer an exchange
    last,       \* history: the last operation, its inputs, pre-state and result
    pending,    \* the httpRequest call that is inside client.Do, if any
    race        \* unsynchronized callers: the len word of c.hosts, and each
                \* goroutine's position and locals

vars == <<hosts, nextIndex, returned, mutated, net, last, pending, race>>

----------------------------------------------------------------------------
(* Bounds of the model *)

MaxHosts == 2
MaxCalls == 4
MaxRaceCalls == 4
MaxRaceHosts == 3

(* The URI values callers may register (a *URI is modelled by its value). *)
Endpoints == {"http://a:10101", "http://b:10101"}

(* The nil *URI *)
None == "nil"

----------------------------------------------------------------------------
(* cluster.go *)

AddHost(h, address) == Append(h, address)

(* Variant of GetHost: the cursor is advanced without the modulo. *)
GetHostNoWrap(h, i) ==
    IF Len(h) = 0
    THEN [uri |-> None, nextIndex |-> i]
    ELSE [uri |-> h[(i % Len(h)) + 1], nextIndex |-> i + 1]

(* Variant of GetHost: the cursor is not advanced. *)
GetHostStuck(h, i) ==
    IF Len(h) = 0
    THEN [uri |-> None, nextIndex |-> i]
    ELSE [uri |-> h[(i % Len(h)) + 1], nextIndex |-> i % Len(h)]

(* Variant of GetHost: the cursor is advanced before the empty check. *)
GetHostAdvancesOnEmpty(h, i) ==
    IF Len(h) = 0
    THEN [uri |-> None, nextIndex |-> i + 1]
    ELSE [uri |-> h[(i % Len(h)) + 1], nextIndex |-> (i + 1) % Len(h)]

(* GetHost: the address handed out and the cursor it leaves behind. *)
GetHost(h, i) ==
    IF Len(h) = 0
    THEN [uri |-> None, nextIndex |-> i]
    ELSE [uri |-> h[(i % Len(h)) + 1], nextIndex |-> (i + 1) % Len(h)]

(* RemoveHost: the body is empty ("TODO"); the receiver is left as it is. *)
RemoveHost(h, address) == h

(* A slice as the caller holds it: its elements, and whether its backing  *)
(* array is the one c.hosts points at.                                     *)
Slice(elems, shared) == [elems |-> elems, shared |-> shared]

(* Variant of GetHosts: hands out the registry's own backing array. *)
GetHostsAliased(h) == Slice(h, TRUE)

(* GetHosts: a fresh slice holding a copy of every URI value, in order. *)
GetHosts(h) == Slice([k \in 1..Len(h) |-> h[k]], FALSE)

(* What a caller may store into an element of a slice it was given. *)
CallerValues == {"http://other:1"}

(* The caller's store s[k] = u, and what it does to the array behind h. *)
StoreElement(s, h, k, u) ==
    [slice |-> Slice([s.elems EXCEPT ![k] = u], s.shared),
     hosts |-> IF s.shared THEN [h EXCEPT ![k] = u] ELSE h]

----------------------------------------------------------------------------
(* The server and the network, as seen by one HTTP exchange *)

(* Status codes on both sides of each edge of [200,300), and a conflict. *)
StatusCodes == {199, 200, 299, 300, 409}

(* response.Status, the status line text that goes with response.StatusCode *)
Status(code) ==
    CASE code = 199 -> "199 "
      [] code = 200 -> "200 OK"
      [] code = 299 -> "299 "
      [] code = 300 -> "300 Multiple Choices"
      [] code = 409 -> "409 Conflict"

DatabaseExistsMsg == "database already exists\n"
FrameExistsMsg == "frame already exists\n"

(* Response bodies: the two literal messages, near misses of them, an      *)
(* absent body, and binary / JSON payloads, whole and damaged.             *)
ErrorBodies ==
    { DatabaseExistsMsg, FrameExistsMsg,
      "database already exists", "frame already exists\n\n" }
QueryBodies ==
    { "<QueryResponse>", "<QueryResponse:truncated>", "<QueryResponse:badattrs>" }
SchemaBodies == { "{\"dbs\":[]}", "{\"dbs\":[" }
Bodies == {""} \cup ErrorBodies \cup QueryBodies \cup SchemaBodies

NoBody == "<none>"

(* What the exchange meets: client.Do fails (no response at all), or a     *)
(* response arrives and reading its body fails, or it is read in full.     *)
Envs ==
    { [doErr |-> TRUE, status |-> 0, readErr |-> FALSE, body |-> NoBody] }
    \cup { [doErr |-> FALSE, status |-> s, readErr |-> TRUE, body |-> NoBody] :
             s \in StatusCodes }
    \cup { [doErr |-> FALSE, status |-> s, readErr |-> FALSE, body |-> b] :
             s \in StatusCodes, b \in Bodies }

----------------------------------------------------------------------------
(* Error values *)

NoError == [kind |-> "nil"]
ErrorEmptyCluster == [kind |-> "ErrorEmptyCluster"]
ErrorDatabaseExists == [kind |-> "ErrorDatabaseExists"]
ErrorFrameExists == [kind |-> "ErrorFrameExists"]
(* NewPilosaError(fmt.Sprintf("Server error (%d) %s: %s", ...)): the       *)
(* message is kept as the tuple of the three formatted arguments.          *)
NewPilosaError(code, status, msg) ==
    [kind |-> "PilosaError", message |-> <<"Server error", code, status, msg>>]
(* The error client.Do returns, and the one ioutil.ReadAll returns. *)
DoError == [kind |-> "client.Do"]
ReadAllError == [kind |-> "ioutil.ReadAll"]

NilBuf == "<nil>"
NilValue == <<>>

----------------------------------------------------------------------------
(* client.go: httpRequest *)

ProtobufType == "application/x-protobuf"

NewRequest(method, addr, path, data) ==
    [method |-> method, url |-> <<addr, path>>, body |-> data,
     contentType |-> ProtobufType, accept |-> ProtobufType]

(* The result of one httpRequest call: the cursor it leaves, the GetHost   *)
(* results it obtained, the requests it handed to client.Do, and the       *)
(* returned ([]byte, error).                                               *)
HttpResult(sel, sent, buf, err) ==
    [nextIndex |-> sel.nextIndex, picked |-> <<sel.uri>>, sent |-> sent,
     buf |-> buf, err |-> err]

(* Variant of errorStatus: the literals lack the trailing newline. *)
errorStatusNoNewline(sel, request, env) ==
    IF env.readErr
    THEN HttpResult(sel, <<request>>, NilBuf, ReadAllError)
    ELSE IF env.body = "database already exists"
    THEN HttpResult(sel, <<request>>, NilBuf, ErrorDatabaseExists)
    ELSE IF env.body = "frame already exists"
    THEN HttpResult(sel, <<request>>, NilBuf, ErrorFrameExists)
    ELSE HttpResult(sel, <<request>>, NilBuf,
                    NewPilosaError(env.status, Status(env.status), env.body))

(* Variant of errorStatus: the messages are matched as prefixes. *)
errorStatusPrefix(sel, request, env) ==
    IF env.readErr
    THEN HttpResult(sel, <<request>>, NilBuf, ReadAllError)
    ELSE IF env.body \in {DatabaseExistsMsg, "database already exists"}
    THEN HttpResult(sel, <<request>>, NilBuf, ErrorDatabaseExists)
    ELSE IF env.body \in {FrameExistsMsg, "frame already exists\n\n"}
    THEN HttpResult(sel, <<request>>, NilBuf, ErrorFrameExists)
    ELSE HttpResult(sel, <<request>>, NilBuf,
                    NewPilosaError(env.status, Status(env.status), env.body))

(* httpRequest, lines 144-158: a status outside [200,300).  The body is    *)
(* read in full and compared with the two literal messages.                *)
errorStatus(sel, request, env) ==
    IF env.readErr
    THEN HttpResult(sel, <<request>>, NilBuf, ReadAllError)
    ELSE IF env.body = DatabaseExistsMsg
    THEN HttpResult(sel, <<request>>, NilBuf, ErrorDatabaseExists)
    ELSE IF env.body = FrameExistsMsg
    THEN HttpResult(sel, <<request>>, NilBuf, ErrorFrameExists)
    ELSE HttpResult(sel, <<request>>, NilBuf,
                    NewPilosaError(env.status, Status(env.status), env.body))

(* Variant of roundTrip: an expected body is returned before the status   *)
(* is looked at.                                                           *)
roundTripBodyFirst(sel, request, needsResponse, env) ==
    IF env.doErr
    THEN HttpResult(sel, <<request>>, NilBuf, DoError)
    ELSE IF needsResponse
    THEN IF env.readErr
         THEN HttpResult(sel, <<request>>, NilBuf, ReadAllError)
         ELSE HttpResult(sel, <<request>>, env.body, NoError)
    ELSE IF env.status < 200 \/ env.status >= 300
    THEN errorStatus(sel, request, env)
    ELSE HttpResult(sel, <<request>>, NilBuf, NoError)

(* httpRequest, lines 139-167: client.Do and the reading of the response. *)
(* A body is read only on a status outside [200,300) or when the caller    *)
(* needs the response.                                                     *)
roundTrip(sel, request, needsResponse, env) ==
    IF env.doErr
    THEN HttpResult(sel, <<request>>, NilBuf, DoError)
    ELSE IF env.status < 200 \/ env.status >= 300
    THEN errorStatus(sel, request, env)
    ELSE IF needsResponse
    THEN IF env.readErr
         THEN HttpResult(sel, <<request>>, NilBuf, ReadAllError)
         ELSE HttpResult(sel, <<request>>, env.body, NoError)
    ELSE HttpResult(sel, <<request>>, NilBuf, NoError)

(* Variant of httpRequest: the nil address is not checked for. *)
httpRequestNoNilCheck(h, i, method, path, data, needsResponse, env) ==
    LET sel == GetHost(h, i)
    IN  roundTrip(sel, NewRequest(method, sel.uri, path, data), needsResponse, env)

(* Variant of httpRequest: a failed call gives its host back, leaving the  *)
(* cursor where it was.                                                    *)
httpRequestRewindOnError(h, i, method, path, data, needsResponse, env) ==
    LET sel == GetHost(h, i)
        r == roundTrip(sel, NewRequest(method, sel.uri, path, data),
                       needsResponse, env)
    IN  IF sel.uri = None
        THEN HttpResult(sel, <<>>, NilBuf, ErrorEmptyCluster)
        ELSE IF r.err # NoError THEN [r EXCEPT !.nextIndex = i]
        ELSE r

(* httpRequest.  http.NewRequest gets one of the methods GET, POST, DELETE *)
(* and the normalized address of a registered URI, and does not fail.      *)
httpRequest(h, i, method, path, data, needsResponse, env) ==
    LET sel == GetHost(h, i)
    IN  IF sel.uri = None
        THEN HttpResult(sel, <<>>, NilBuf, ErrorEmptyCluster)
        ELSE roundTrip(sel, NewRequest(method, sel.uri, path, data),
                       needsResponse, env)

----------------------------------------------------------------------------
(* client.go: the values the callers pass in *)

(* The strings callers try as names and labels, and the naming rules.     *)
NameInputs == {"db1", "frame1", "Bad Name!"}
ColumnLabelInputs == {"profileID", "bad label!"}
RowLabelInputs == {"id", "bad label!"}

ValidationError == [kind |-> "ValidationError"]
validateLabel(label) ==
    IF label \in {"profileID", "id"} THEN NoError ELSE ValidationError
validateDatabaseName(name) ==
    IF name \in {"db1"} THEN NoError ELSE ValidationError
validateFrameName(name) ==
    IF name \in {"frame1"} THEN NoError ELSE ValidationError

NilObject == [name |-> "<nil>"]

NewDatabaseOptionsWithColumnLabel(columnLabel) ==
    IF validateLabel(columnLabel) # NoError
    THEN [value |-> NilObject, err |-> validateLabel(columnLabel)]
    ELSE [value |-> [columnLabel |-> columnLabel], err |-> NoError]

NewDatabaseWithOptions(name, options) ==
    IF validateDatabaseName(name) # NoError
    THEN [value |-> NilObject, err |-> validateDatabaseName(name)]
    ELSE [value |-> [name |-> name, options |-> options], err |-> NoError]

NewDatabaseWithColumnLabel(name, label) ==
    LET o == NewDatabaseOptionsWithColumnLabel(label)
    IN  IF o.err # NoError THEN [value |-> NilObject, err |-> o.err]
        ELSE NewDatabaseWithOptions(name, o.value)

NewDatabase(name) == NewDatabaseWithColumnLabel(name, "profileID")

FrameWithRowLabel(d, name, label) ==
    IF validateFrameName(name) # NoError
    THEN [value |-> NilObject, err |-> validateFrameName(name)]
    ELSE [value |-> [name |-> name, database |-> d,
                     options |-> [rowLabel |-> label]],
          err |-> NoError]

Frame(d, name) == FrameWithRowLabel(d, name, "id")

TheDatabase == NewDatabase("db1").value
TheFrame == Frame(TheDatabase, "frame1").value

(* The Database and Frame values a caller can get from the constructors. *)
Databases ==
    { r.value : r \in { x \in { NewDatabaseWithColumnLabel(n, l) :
                                   n \in NameInputs, l \in ColumnLabelInputs } :
                         x.err = NoError } }
Frames ==
    { r.value : r \in { x \in { FrameWithRowLabel(d, n, l) :
                                   d \in Databases, n \in NameInputs,
                                   l \in RowLabelInputs } :
                         x.err = NoError } }
Queries == {"Bitmap(id=1)"}
QueryOptionsSet == {[GetProfiles |-> FALSE], [GetProfiles |-> TRUE]}
DefaultQueryOptions == [GetProfiles |-> FALSE]

(* makeRequestData: the marshalled internal.QueryRequest, kept symbolic. *)
makeRequestData(databaseName, query, options) ==
    <<"QueryRequest", databaseName, query, options.GetProfiles>>

(* The JSON texts of createOrDeleteDatabase / createOrDeleteFrame. *)
DatabaseJSON(database) ==
    <<"{db, options:{columnLabel}}", database.name, database.options.columnLabel>>
FrameJSON(frame) ==
    <<"{db, frame, options:{rowLabel}}", frame.database.name, frame.name,
      frame.options.rowLabel>>

----------------------------------------------------------------------------
(* Decoding of response bodies.  A body is classified by what its decoder  *)
(* makes of it.                                                            *)

UnmarshalError == [kind |-> "proto.Unmarshal"]
ConvertError == [kind |-> "newQueryResponseFromInternal"]
JSONError == [kind |-> "json.Decode"]

(* internal.QueryResponse.Unmarshal: fails on an absent or damaged body. *)
Unmarshal(buf) ==
    IF buf \in {"<QueryResponse>", "<QueryResponse:badattrs>"}
    THEN [iqr |-> buf, err |-> NoError]
    ELSE [iqr |-> NilBuf, err |-> UnmarshalError]

(* newQueryResponseFromInternal: fails on results it cannot convert. *)
newQueryResponseFromInternal(iqr) ==
    IF iqr = "<QueryResponse>"
    THEN [value |-> <<"QueryResponse", iqr>>, err |-> NoError]
    ELSE [value |-> NilValue, err |-> ConvertError]

(* json.NewDecoder(bytes.NewReader(response)).Decode(&schema): io.EOF on   *)
(* an empty body, a syntax error on text that is not a JSON value.         *)
DecodeSchema(response) ==
    IF response = "{\"dbs\":[]}"
    THEN [value |-> <<"Schema", response>>, err |-> NoError]
    ELSE [value |-> NilValue, err |-> JSONError]

----------------------------------------------------------------------------
(* client.go: the public operations.  Each yields the cursor it leaves,    *)
(* the GetHost results and requests of the whole call, and what the        *)
(* caller gets back.                                                       *)

OpResult(r, value, err) ==
    [nextIndex |-> r.nextIndex, picked |-> r.picked, sent |-> r.sent,
     value |-> value, err |-> err]

QueryWithOptions(h, i, options, database, query, env) ==
    LET data == makeRequestData(database.name, query, options)
        r == httpRequest(h, i, "POST", "/query", data, TRUE, env)
        u == Unmarshal(r.buf)
        q == newQueryResponseFromInternal(u.iqr)
    IN  IF r.err # NoError THEN OpResult(r, NilValue, r.err)
        ELSE IF u.err # NoError THEN OpResult(r, NilValue, u.err)
        ELSE OpResult(r, q.value, q.err)

Query(h, i, database, query, env) ==
    QueryWithOptions(h, i, DefaultQueryOptions, database, query, env)

(* Variant of Schema: the decoder's error is dropped. *)
SchemaIgnoresDecodeError(h, i, env) ==
    LET r == httpRequest(h, i, "GET", "/schema", <<>>, TRUE, env)
    IN  IF r.err # NoError THEN OpResult(r, NilValue, r.err)
        ELSE OpResult(r, <<"Schema", r.buf>>, NoError)

Schema(h, i, env) ==
    LET r == httpRequest(h, i, "GET", "/schema", <<>>, TRUE, env)
        d == DecodeSchema(r.buf)
    IN  IF r.err # NoError THEN OpResult(r, NilValue, r.err)
        ELSE IF d.err # NoError THEN OpResult(r, NilValue, d.err)
        ELSE OpResult(r, d.value, NoError)

createOrDeleteDatabase(h, i, method, database, env) ==
    LET r == httpRequest(h, i, method, "/db", DatabaseJSON(database), FALSE, env)
    IN  OpResult(r, NilValue, r.err)

createOrDeleteFrame(h, i, method, frame, env) ==
    LET r == httpRequest(h, i, method, "/frame", FrameJSON(frame), FALSE, env)
    IN  OpResult(r, NilValue, r.err)

CreateDatabase(h, i, database, env) ==
    createOrDeleteDatabase(h, i, "POST", database, env)

CreateFrame(h, i, frame, env) ==
    createOrDeleteFrame(h, i, "POST", frame, env)

DeleteDatabase(h, i, database, env) ==
    createOrDeleteDatabase(h, i, "DELETE", database, env)

DeleteFrame(h, i, frame, env) ==
    createOrDeleteFrame(h, i, "DELETE", frame, env)

(* Variant of EnsureDatabaseExists: a failed create is tried once more. *)
EnsureDatabaseExistsRetry(h, i, database, env) ==
    LET r == CreateDatabase(h, i, database, env)
        again == CreateDatabase(h, r.nextIndex, database, env)
    IN  IF r.err = ErrorDatabaseExists THEN [r EXCEPT !.err = NoError]
        ELSE IF r.err = NoError THEN r
        ELSE [again EXCEPT !.picked = r.picked \o again.picked,
                           !.sent = r.sent \o again.sent]

EnsureDatabaseExists(h, i, database, env) ==
    LET r == CreateDatabase(h, i, database, env)
    IN  IF r.err = ErrorDatabaseExists THEN [r EXCEPT !.err = NoError] ELSE r

(* Variant of EnsureFrameExists: every error of the create is dropped. *)
EnsureFrameExistsSwallowsAll(h, i, frame, env) ==
    [CreateFrame(h, i, frame, env) EXCEPT !.err = NoError]

EnsureFrameExists(h, i, frame, env) ==
    LET r == CreateFrame(h, i, frame, env)
    IN  IF r.err = ErrorFrameExists THEN [r EXCEPT !.err = NoError] ELSE r

----------------------------------------------------------------------------
(* The state machine *)

Record(op, arg, picked, sent, value, err) ==
    [op |-> op, arg |-> arg,
     preHosts |-> hosts, preIndex |-> nextIndex,
     picked |-> picked, sent |-> sent, value |-> value, err |-> err]

(* No httpRequest call is inside client.Do. *)
NoPending == [state |-> "none"]

(* The goroutines that share one Cluster without a lock. *)
Threads == {1, 2}

(* No goroutine is inside a Cluster method. *)
NoRace ==
    [len |-> 0, calls |-> 0, adds |-> 0,
     pc |-> [t \in Threads |-> "idle"],
     loc |-> [t \in Threads |-> [call |-> "none"]]]

(* NewCluster(): no addresses, cursor 0. *)
Init ==
    /\ hosts = <<>>
    /\ nextIndex = 0
    /\ returned = <<>>
    /\ mutated = FALSE
    /\ net \in Envs
    /\ pending = NoPending
    /\ race = NoRace
    /\ last = [op |-> "NewCluster", arg |-> <<>>,
               preHosts |-> <<>>, preIndex |-> 0,
               picked |-> <<>>, sent |-> <<>>, value |-> NilValue, err |-> NoError]

CallAddHost ==
    \E address \in Endpoints :
        /\ Len(hosts) < MaxHosts
        /\ hosts' = AddHost(hosts, address)
        /\ mutated' = (mutated \/ Len(returned) > 0)
        /\ last' = Record("AddHost", <<address>>, <<>>, <<>>, NilValue, NoError)
        /\ UNCHANGED <<nextIndex, returned, net, pending, race>>

CallGetHost ==
    /\ Len(returned) < MaxCalls
    /\ LET r == GetHost(hosts, nextIndex)
       IN  /\ nextIndex' = r.nextIndex
           /\ returned' = Append(returned, r.uri)
           /\ last' = Record("GetHost", <<>>, <<r.uri>>, <<>>, <<r.uri>>, NoError)
    /\ UNCHANGED <<hosts, mutated, net, pending, race>>

CallRemoveHost ==
    \E address \in Endpoints :
        /\ hosts' = RemoveHost(hosts, address)
        /\ mutated' = (mutated \/ Len(returned) > 0)
        /\ last' = Record("RemoveHost", <<address>>, <<>>, <<>>, NilValue, NoError)
        /\ UNCHANGED <<nextIndex, returned, net, pending, race>>

CallGetHosts ==
    /\ last' = Record("GetHosts", <<>>, <<>>, <<>>, GetHosts(hosts), NoError)
    /\ UNCHANGED <<hosts, nextIndex, returned, mutated, net, pending, race>>

(* The caller writes into the slice GetHosts gave it. *)
CallerStores ==
    /\ last.op = "GetHosts"
    /\ \E k \in 1..Len(last.value.elems), u \in CallerValues :
        LET r == StoreElement(last.value, hosts, k, u)
        IN  /\ u # last.value.elems[k]
            /\ hosts' = r.hosts
            /\ last' = Record("CallerStores", <<k, u>>, <<>>, <<>>, r.slice, NoError)
    /\ UNCHANGED <<nextIndex, returned, mutated, net, pending, race>>

(* A Client operation with outcome r: the cluster's cursor moves as the    *)
(* call's GetHost left it; the transport has seen the requests it sent.    *)
Dispatch(op, arg, r) ==
    /\ Len(returned) < MaxCalls
    /\ nextIndex' = r.nextIndex
    /\ returned' = returned \o r.picked
    /\ last' = Record(op, arg, r.picked, r.sent, r.value, r.err)
    /\ UNCHANGED <<hosts, mutated, net, pending, race>>

CallQuery ==
    \E database \in Databases, query \in Queries :
        Dispatch("Query", <<database, query>>,
                 Query(hosts, nextIndex, database, query, net))

CallQueryWithOptions ==
    \E options \in QueryOptionsSet, database \in Databases, query \in Queries :
        Dispatch("QueryWithOptions", <<options, database, query>>,
                 QueryWithOptions(hosts, nextIndex, options, database, query, net))

CallSchema ==
    Dispatch("Schema", <<>>, Schema(hosts, nextIndex, net))

CallCreateDatabase ==
    \E database \in Databases :
        Dispatch("CreateDatabase", <<database>>,
                 CreateDatabase(hosts, nextIndex, database, net))

CallCreateFrame ==
    \E frame \in Frames :
        Dispatch("CreateFrame", <<frame>>,
                 CreateFrame(hosts, nextIndex, frame, net))

CallEnsureDatabaseExists ==
    \E database \in Databases :
        Dispatch("EnsureDatabaseExists", <<database>>,
                 EnsureDatabaseExists(hosts, nextIndex, database, net))

CallEnsureFrameExists ==
    \E frame \in Frames :
        Dispatch("EnsureFrameExists", <<frame>>,
                 EnsureFrameExists(hosts, nextIndex, frame, net))

CallDeleteDatabase ==
    \E database \in Databases :
        Dispatch("DeleteDatabase", <<database>>,
                 DeleteDatabase(hosts, nextIndex, database, net))

CallDeleteFrame ==
    \E frame \in Frames :
        Dispatch("DeleteFrame", <<frame>>,
                 DeleteFrame(hosts, nextIndex, frame, net))

Next ==
    \/ CallAddHost
    \/ CallGetHost
    \/ CallRemoveHost
    \/ CallGetHosts
    \/ CallerStores
    \/ CallQuery
    \/ CallQueryWithOptions
    \/ CallSchema
    \/ CallCreateDatabase
    \/ CallCreateFrame
    \/ CallEnsureDatabaseExists
    \/ CallEnsureFrameExists
    \/ CallDeleteDatabase
    \/ CallDeleteFrame

Spec == Init /\ [][Next]_vars

----------------------------------------------------------------------------
(* httpRequest with the wait inside client.Do made visible *)

(* The httpRequest calls of Schema and of DeleteDatabase. *)
HttpCalls ==
    { [op |-> "Schema", method |-> "GET", path |-> "/schema", data |-> <<>>,
       needsResponse |-> TRUE],
      [op |-> "DeleteDatabase", method |-> "DELETE", path |-> "/db",
       data |-> DatabaseJSON(TheDatabase), needsResponse |-> FALSE] }

(* httpRequest, lines 126-139: the host is picked, the request is built    *)
(* and handed to client.Do of a new http.Client{}, which has no Timeout;   *)
(* the request carries no context.  The server answers or stays silent.    *)
BeginExchange ==
    /\ pending = NoPending
    /\ Len(returned) < MaxCalls
    /\ \E c \in HttpCalls, silent \in BOOLEAN :
        LET sel == GetHost(hosts, nextIndex)
        IN  /\ nextIndex' = sel.nextIndex
            /\ returned' = Append(returned, sel.uri)
            /\ IF sel.uri = None
               THEN /\ pending' = NoPending
                    /\ last' = Record(c.op, <<>>, <<sel.uri>>, <<>>, NilValue,
                                      ErrorEmptyCluster)
               ELSE /\ pending' = [state |-> "client.Do", call |-> c, sel |-> sel,
                                   preIndex |-> nextIndex,
                                   request |-> NewRequest(c.method, sel.uri,
                                                          c.path, c.data),
                                   silent |-> silent, deadlinePassed |-> FALSE]
                    /\ last' = last
    /\ UNCHANGED <<hosts, mutated, net, race>>

(* httpRequest, lines 139-167: client.Do returns, with a response or with  *)
(* an error of the transport.                                              *)
DoReturns ==
    /\ pending # NoPending
    /\ ~pending.silent
    /\ LET r == roundTrip(pending.sel, pending.request,
                          pending.call.needsResponse, net)
       IN  last' = [Record(pending.call.op, <<>>, r.picked, r.sent, r.buf, r.err)
                       EXCEPT !.preIndex = pending.preIndex]
    /\ pending' = NoPending
    /\ UNCHANGED <<hosts, nextIndex, returned, mutated, net, race>>

(* The caller's deadline passes, or the caller gives the call up.  Nothing *)
(* in httpRequest can be told: it takes no context and sets no timeout.    *)
DeadlinePasses ==
    /\ pending # NoPending
    /\ ~pending.deadlinePassed
    /\ pending' = [pending EXCEPT !.deadlinePassed = TRUE]
    /\ UNCHANGED <<hosts, nextIndex, returned, mutated, net, last, race>>

NextDeadline ==
    \/ CallAddHost
    \/ BeginExchange
    \/ DoReturns
    \/ DeadlinePasses

(* client.Do returns once the transport has a response or an error, and    *)
(* time goes on.                                                           *)
SpecDeadline ==
    /\ Init
    /\ [][NextDeadline]_vars
    /\ WF_vars(DoReturns)
    /\ WF_vars(DeadlinePasses)

----------------------------------------------------------------------------
(* cluster.go with goroutines that share one Cluster and take no lock.     *)
(* Every read and write of c.nextIndex and of c.hosts is a step of its own. *)
(* c.hosts is a slice header of several words: hosts stands for the array  *)
(* its pointer leads to, race.len for its len word.  AddHost stores the    *)
(* words one at a time, in an order the build chooses.                     *)

(* The goroutine that also calls AddHost; every goroutine calls GetHost. *)
Writer == 1

Unset == -1
NoHeader == [data |-> <<>>, len |-> Unset]
WildPointer == "<wild pointer>"

(* What the load of an element past the end of the array can give. *)
WildReads(data) == {None, WildPointer} \cup {data[k] : k \in 1..Len(data)}

GetHostLocals ==
    [call |-> "GetHost", hdr |-> NoHeader, n |-> Unset, l |-> Unset,
     uri |-> None, new |-> <<>>, stored |-> {}]

AddHostLocals(new) ==
    [call |-> "AddHost", hdr |-> NoHeader, n |-> Unset, l |-> Unset,
     uri |-> None, new |-> new, stored |-> {}]

(* Goroutine t is at p, and the program has not crashed. *)
At(t, p) ==
    /\ race.pc[t] = p
    /\ \A u \in Threads : race.pc[u] # "panic"

Goto(t, p, locals) ==
    [race EXCEPT !.pc[t] = p, !.loc[t] = locals]

(* NewClusterWithHost, and AddHost calls, before the goroutines start. *)
InitRace ==
    /\ hosts \in { <<"http://a:10101">>, <<"http://a:10101", "http://b:10101">> }
    /\ nextIndex = 0
    /\ returned = <<>>
    /\ mutated = FALSE
    /\ net = [doErr |-> TRUE, status |-> 0, readErr |-> FALSE, body |-> NoBody]
    /\ pending = NoPending
    /\ race = [NoRace EXCEPT !.len = Len(hosts)]
    /\ last = [op |-> "NewClusterWithHost", arg |-> <<>>,
               preHosts |-> <<>>, preIndex |-> 0,
               picked |-> <<>>, sent |-> <<>>, value |-> NilValue, err |-> NoError]

(* AddHost, line 25: append(c.hosts, address) is computed ... *)
BeginAddHost(t) ==
    /\ t = Writer
    /\ At(t, "idle")
    /\ race.calls < MaxRaceCalls
    /\ Len(hosts) < MaxRaceHosts
    /\ \E address \in Endpoints :
        race' = [Goto(t, "store", AddHostLocals(AddHost(hosts, address)))
                    EXCEPT !.calls = @ + 1]
    /\ UNCHANGED <<hosts, nextIndex, returned, mutated, net, last, pending>>

(* ... and stored to c.hosts: the pointer word ... *)
StorePointer(t) ==
    /\ At(t, "store")
    /\ "ptr" \notin race.loc[t].stored
    /\ hosts' = race.loc[t].new
    /\ race' = [race EXCEPT !.loc[t].stored = @ \cup {"ptr"}]
    /\ UNCHANGED <<nextIndex, returned, mutated, net, last, pending>>

(* ... and the len word. *)
StoreLen(t) ==
    /\ At(t, "store")
    /\ "len" \notin race.loc[t].stored
    /\ race' = [race EXCEPT !.len = Len(race.loc[t].new),
                            !.loc[t].stored = @ \cup {"len"}]
    /\ UNCHANGED <<hosts, nextIndex, returned, mutated, net, last, pending>>

EndAddHost(t) ==
    /\ At(t, "store")
    /\ race.loc[t].stored = {"ptr", "len"}
    /\ race' = [Goto(t, "idle", [call |-> "none"]) EXCEPT !.adds = @ + 1]
    /\ UNCHANGED <<hosts, nextIndex, returned, mutated, net, last, pending>>

BeginGetHost(t) ==
    /\ At(t, "idle")
    /\ race.calls < MaxRaceCalls
    /\ race' = [Goto(t, "line30", GetHostLocals) EXCEPT !.calls = @ + 1]
    /\ UNCHANGED <<hosts, nextIndex, returned, mutated, net, last, pending>>

(* GetHost, lines 30-32: if len(c.hosts) == 0 { return nil } *)
CheckEmpty(t) ==
    /\ At(t, "line30")
    /\ IF race.len = 0
       THEN /\ returned' = Append(returned, None)
            /\ race' = Goto(t, "idle", [call |-> "none"])
       ELSE /\ returned' = returned
            /\ race' = Goto(t, "line34", race.loc[t])
    /\ UNCHANGED <<hosts, nextIndex, mutated, net, last, pending>>

(* GetHost, line 34, c.hosts[c.nextIndex%len(c.hosts)]: the loads of the   *)
(* slice that is indexed, of c.nextIndex and of len(c.hosts).  The slice   *)
(* may be loaded before or after the index is computed.                    *)
LoadHosts(t) ==
    /\ At(t, "line34")
    /\ race.loc[t].hdr = NoHeader
    /\ race' = [race EXCEPT !.loc[t].hdr = [data |-> hosts, len |-> race.len]]
    /\ UNCHANGED <<hosts, nextIndex, returned, mutated, net, last, pending>>

LoadNextIndex(t) ==
    /\ At(t, "line34")
    /\ race.loc[t].n = Unset
    /\ race' = [race EXCEPT !.loc[t].n = nextIndex]
    /\ UNCHANGED <<hosts, nextIndex, returned, mutated, net, last, pending>>

LoadLen(t) ==
    /\ At(t, "line34")
    /\ race.loc[t].n # Unset
    /\ race.loc[t].l = Unset
    /\ race' = [race EXCEPT !.loc[t].l = race.len]
    /\ UNCHANGED <<hosts, nextIndex, returned, mutated, net, last, pending>>

(* The bounds check against the loaded len, and the load of the element.   *)
(* An index that passes the check and lies past the end of the array the   *)
(* loaded pointer leads to reads whatever is there.                        *)
IndexHosts(t) ==
    /\ At(t, "line34")
    /\ race.loc[t].hdr # NoHeader
    /\ race.loc[t].l # Unset
    /\ LET my == race.loc[t]
           idx == my.n % my.l
       IN  IF idx >= my.hdr.len
           THEN race' = Goto(t, "panic", my)
           ELSE IF idx >= Len(my.hdr.data)
           THEN \E u \in WildReads(my.hdr.data) :
                    race' = Goto(t, "line35", [GetHostLocals EXCEPT !.uri = u])
           ELSE race' = Goto(t, "line35",
                             [GetHostLocals EXCEPT !.uri = my.hdr.data[idx + 1]])
    /\ UNCHANGED <<hosts, nextIndex, returned, mutated, net, last, pending>>

(* GetHost, line 35, c.nextIndex = (c.nextIndex + 1) % len(c.hosts): the   *)
(* two loads and the store.                                                *)
ReloadNextIndex(t) ==
    /\ At(t, "line35")
    /\ race.loc[t].n = Unset
    /\ race' = [race EXCEPT !.loc[t].n = nextIndex]
    /\ UNCHANGED <<hosts, nextIndex, returned, mutated, net, last, pending>>

ReloadLen(t) ==
    /\ At(t, "line35")
    /\ race.loc[t].n # Unset
    /\ race.loc[t].l = Unset
    /\ race' = [race EXCEPT !.loc[t].l = race.len]
    /\ UNCHANGED <<hosts, nextIndex, returned, mutated, net, last, pending>>

StoreNextIndex(t) ==
    /\ At(t, "line35")
    /\ race.loc[t].l # Unset
    /\ nextIndex' = (race.loc[t].n + 1) % race.loc[t].l
    /\ race' = Goto(t, "line36", race.loc[t])
    /\ UNCHANGED <<hosts, returned, mutated, net, last, pending>>

(* GetHost, line 36: return uri *)
ReturnHost(t) ==
    /\ At(t, "line36")
    /\ returned' = Append(returned, race.loc[t].uri)
    /\ race' = Goto(t, "idle", [call |-> "none"])
    /\ UNCHANGED <<hosts, nextIndex, mutated, net, last, pending>>

NextRace ==
    \E t \in Threads :
        \/ BeginAddHost(t)
        \/ StorePointer(t)
        \/ StoreLen(t)
        \/ EndAddHost(t)
        \/ BeginGetHost(t)
        \/ CheckEmpty(t)
        \/ LoadHosts(t)
        \/ LoadNextIndex(t)
        \/ LoadLen(t)
        \/ IndexHosts(t)
        \/ ReloadNextIndex(t)
        \/ ReloadLen(t)
        \/ StoreNextIndex(t)
        \/ ReturnHost(t)

SpecRace == InitRace /\ [][NextRace]_vars

----------------------------------------------------------------------------
(* Vocabulary of the properties *)

QueryOps == {"Query", "QueryWithOptions"}
DatabaseOps == {"CreateDatabase", "DeleteDatabase"}
FrameOps == {"CreateFrame", "DeleteFrame"}
EnsureOps == {"EnsureDatabaseExists", "EnsureFrameExists"}
(* The dispatcher's own calls; the Ensure* conveniences are layered on     *)
(* CreateDatabase / CreateFrame.                                           *)
CoreOps == QueryOps \cup {"Schema"} \cup DatabaseOps \cup FrameOps
ClientOps == CoreOps \cup EnsureOps
NeedsResponseOps == QueryOps \cup {"Schema"}

(* The error kinds of the specification, by the error value returned. *)
Kind(err) ==
    CASE err = NoError -> "SUCCESS"
      [] err = ErrorEmptyCluster -> "EMPTY_CLUSTER"
      [] err \in {DoError, ReadAllError} -> "TRANSPORT_ERROR"
      [] err \in {ErrorDatabaseExists, ErrorFrameExists} -> "ALREADY_EXISTS"
      [] err.kind = "PilosaError" -> "SERVER_ERROR"
      [] err \in {UnmarshalError, ConvertError, JSONError} -> "DECODE_ERROR"

(* The bodies that are a whole payload of the encoding an operation expects *)
WellFormed(op) ==
    IF op = "Schema" THEN {"{\"dbs\":[]}"} ELSE {"<QueryResponse>"}

Is2xx(status) == status >= 200 /\ status < 300

(* The last operation was a Client call that reached the exchange, and a   *)
(* response came back.                                                     *)
Called(ops) == last.op \in ops /\ last.preHosts # <<>>
GotResponse == ~net.doErr
BodyRead == ~net.doErr /\ ~net.readErr

----------------------------------------------------------------------------
(* C1: with N >= 1 hosts and no AddHost/RemoveHost after the first GetHost, *)
(* the k-th GetHost call since NewCluster returned hosts[(k-1) mod N]; so   *)
(* the first 2N calls returned the hosts in insertion order, twice over.    *)
C1_RoundRobin ==
    (~mutated /\ Len(hosts) >= 1) =>
        /\ \A k \in 1..Len(returned) :
              returned[k] = hosts[((k - 1) % Len(hosts)) + 1]
        /\ Len(returned) >= 2 * Len(hosts) =>
              SubSeq(returned, 1, 2 * Len(hosts)) = hosts \o hosts

C1_Witness ==
    /\ ~mutated
    /\ Len(hosts) = 2 /\ hosts[1] # hosts[2]
    /\ Len(returned) = 4
    /\ last.op = "GetHost"

(* C2: whenever hosts is non-empty, 0 <= nextIndex < len(hosts); a GetHost  *)
(* that returned an address left nextIndex = (old nextIndex + 1) mod len;   *)
(* AddHost and GetHosts left nextIndex as it was.                           *)
C2_CursorInvariant ==
    /\ Len(hosts) > 0 => (nextIndex >= 0 /\ nextIndex < Len(hosts))
    /\ (Len(last.picked) = 1 /\ last.picked # <<None>>) =>
          nextIndex = (last.preIndex + 1) % Len(last.preHosts)
    /\ last.op \in {"AddHost", "GetHosts"} => nextIndex = last.preIndex

C2_Witness ==
    /\ last.op = "GetHost"
    /\ Len(hosts) = 2
    /\ last.preIndex = 1
    /\ nextIndex = 0

(* C3: a Client call issued on an empty cluster returns ErrorEmptyCluster,  *)
(* hands no request to the transport and leaves hosts and nextIndex as      *)
(* they were.                                                               *)
C3_EmptyCluster ==
    (last.op \in ClientOps /\ last.preHosts = <<>>) =>
        /\ last.err = ErrorEmptyCluster
        /\ last.value = NilValue
        /\ last.sent = <<>>
        /\ hosts = last.preHosts
        /\ nextIndex = last.preIndex

C3_Witness ==
    /\ last.op = "Query"
    /\ last.preHosts = <<>>
    /\ last.err = ErrorEmptyCluster

(* C4: on a non-empty cluster the outcome of a dispatcher call is decided   *)
(* in this order: a transport failure (client.Do, or a body read that       *)
(* fails) gives TRANSPORT_ERROR; else a status outside [200,300) gives      *)
(* ALREADY_EXISTS or SERVER_ERROR, whether or not a body was expected; else *)
(* an expected body that is absent or malformed gives DECODE_ERROR; else    *)
(* the call succeeds.                                                       *)
C4_Expected(op, env) ==
    IF env.doErr THEN {"TRANSPORT_ERROR"}
    ELSE IF ~Is2xx(env.status)
         THEN IF env.readErr THEN {"TRANSPORT_ERROR"}
              ELSE {"ALREADY_EXISTS", "SERVER_ERROR"}
    ELSE IF op \in NeedsResponseOps
         THEN IF env.readErr THEN {"TRANSPORT_ERROR"}
              ELSE IF env.body \notin WellFormed(op) THEN {"DECODE_ERROR"}
              ELSE {"SUCCESS"}
    ELSE {"SUCCESS"}

C5_DatabaseExists ==
    ( /\ Called({"CreateDatabase"})
      /\ BodyRead /\ ~Is2xx(net.status)
      /\ net.body = "database already exists\n" ) =>
        last.err = ErrorDatabaseExists

C5_Witness ==
    /\ Called({"CreateDatabase"})
    /\ BodyRead /\ net.status = 409
    /\ net.body = "database already exists\n"
    /\ last.err = ErrorDatabaseExists

(* C6: the already-exists errors go with the path of the call: a call on    *)
(* /db never returns ErrorFrameExists and a call on /frame never returns    *)
(* ErrorDatabaseExists.                                                     *)
C6_PathSpecific ==
    /\ Called(DatabaseOps \cup {"EnsureDatabaseExists"}) =>
          last.err # ErrorFrameExists
    /\ Called(FrameOps \cup {"EnsureFrameExists"}) =>
          last.err # ErrorDatabaseExists

(* C7: on a status outside [200,300), a body other than the two literal     *)
(* messages gives a server error that carries the status code, the status   *)
(* text and the body.                                                       *)
C7_ExactMatch ==
    ( /\ Called(ClientOps)
      /\ BodyRead /\ ~Is2xx(net.status)
      /\ net.body \notin {"database already exists\n", "frame already exists\n"} ) =>
        /\ Kind(last.err) = "SERVER_ERROR"
        /\ last.err.message[2] = net.status
        /\ last.err.message[3] = Status(net.status)
        /\ last.err.message[4] = net.body

C7_Witness ==
    /\ Called({"CreateFrame"})
    /\ BodyRead /\ net.status = 409
    /\ net.body = "frame already exists\n\n"
    /\ Kind(last.err) = "SERVER_ERROR"
    /\ last.err.message[4] = net.body

C9_NoRetry ==
    last.op \in ClientOps =>
        /\ Len(last.picked) = 1
        /\ Len(last.sent) <= 1
        /\ last.picked = <<None>> => last.sent = <<>>
        /\ last.sent # <<>> => last.sent[1].url[1] = last.picked[1]

C9_Witness ==
    /\ Called({"EnsureDatabaseExists"})
    /\ Len(last.preHosts) = 2
    /\ Kind(last.err) = "TRANSPORT_ERROR"
    /\ Len(last.sent) = 1

(* C10: RemoveHost deletes the first host equal to its argument and keeps   *)
(* the order of the others.                                                 *)
RemoveFirst(h, address) ==
    IF \E k \in 1..Len(h) : h[k] = address
    THEN LET k == CHOOSE j \in 1..Len(h) :
                      h[j] = address /\ \A m \in 1..(j - 1) : h[m] # address
         IN  SubSeq(h, 1, k - 1) \o SubSeq(h, k + 1, Len(h))
    ELSE h

C10_RemoveHost ==
    last.op = "RemoveHost" => hosts = RemoveFirst(last.preHosts, last.arg[1])

(* C11: after RemoveHost(e) the rotation goes on over the remaining hosts  *)
(* as if e had been skipped: the next GetHost returns the host that was    *)
(* next up, or, when that was e, the one that followed it.                 *)
FirstIndex(h, address) ==
    CHOOSE j \in 1..Len(h) : h[j] = address /\ \A m \in 1..(j - 1) : h[m] # address

NextAfterRemoval(h, i, address) ==
    LET up == (i % Len(h)) + 1
        after == ((i + 1) % Len(h)) + 1
    IN  IF up # FirstIndex(h, address) THEN h[up]
        ELSE IF Len(h) = 1 THEN None
        ELSE h[after]

C11_RemovalKeepsRotation ==
    ( /\ last.op = "RemoveHost"
      /\ \E k \in 1..Len(last.preHosts) : last.preHosts[k] = last.arg[1] ) =>
        GetHost(hosts, nextIndex).uri =
            NextAfterRemoval(last.preHosts, last.preIndex, last.arg[1])

(* C12: the Content-Type and Accept headers of every request that carries  *)
(* a body name the encoding of that body: protobuf for the query request,  *)
(* JSON for the bodies sent to /db and /frame.                             *)
MediaTypeOf(body) ==
    IF body[1] = "QueryRequest" THEN "application/x-protobuf" ELSE "application/json"

C12_HeadersMatchBody ==
    \A k \in 1..Len(last.sent) :
        last.sent[k].body # <<>> =>
            /\ last.sent[k].contentType = MediaTypeOf(last.sent[k].body)
            /\ last.sent[k].accept = MediaTypeOf(last.sent[k].body)

(* C13: GetHost on an empty cluster returns nil and leaves hosts and       *)
(* nextIndex as they were, however often it is called.                     *)
C13_EmptyGetHost ==
    (last.op = "GetHost" /\ last.preHosts = <<>>) =>
        /\ last.picked = <<None>>
        /\ hosts = <<>>
        /\ nextIndex = last.preIndex

C13_Witness ==
    /\ last.op = "GetHost"
    /\ last.preHosts = <<>>
    /\ Len(returned) >= 3
    /\ last.picked = <<None>>

(* C15: EnsureDatabaseExists (EnsureFrameExists) succeeds exactly when     *)
(* CreateDatabase (CreateFrame) on the same input succeeds or returns the  *)
(* already-exists error of its own kind; any other error of the create     *)
(* call is returned as it is.                                              *)
C15_Expected(create, own) ==
    IF create.err \in {NoError, own} THEN NoError ELSE create.err

C15_EnsureExists ==
    /\ last.op = "EnsureDatabaseExists" =>
          last.err = C15_Expected(
              CreateDatabase(last.preHosts, last.preIndex, last.arg[1], net),
              ErrorDatabaseExists)
    /\ last.op = "EnsureFrameExists" =>
          last.err = C15_Expected(
              CreateFrame(last.preHosts, last.preIndex, last.arg[1], net),
              ErrorFrameExists)

C15_Witness ==
    /\ Called({"EnsureFrameExists"})
    /\ BodyRead /\ net.status = 409
    /\ net.body = "frame already exists\n"
    /\ last.err = NoError

(* C19: a Client call on a non-empty cluster moves nextIndex on by one     *)
(* (mod len) whatever its outcome and leaves hosts alone; its request goes *)
(* to the host that was next up, so with a fixed host list the i-th        *)
(* GetHost-consuming call goes to hosts[(i-1) mod N].                      *)
C19_CursorOnlyState ==
    Called(ClientOps) =>
        /\ nextIndex = (last.preIndex + 1) % Len(last.preHosts)
        /\ hosts = last.preHosts
        /\ last.sent # <<>> =>
              last.sent[1].url[1] =
                  last.preHosts[(last.preIndex % Len(last.preHosts)) + 1]
        /\ (~mutated /\ last.sent # <<>>) =>
              last.sent[1].url[1] =
                  hosts[((Len(returned) - 1) % Len(hosts)) + 1]

C19_Witness ==
    /\ Called({"Query"})
    /\ ~mutated
    /\ Len(hosts) = 2 /\ hosts[1] # hosts[2]
    /\ Len(returned) = 4
    /\ Kind(last.err) = "TRANSPORT_ERROR"
    /\ last.sent[1].url[1] = hosts[2]

(* C16: a name or label that fails the naming rules is refused when the    *)
(* Database or Frame is constructed, so no Client call is made with one.   *)
ValidDatabase(d) ==
    /\ validateDatabaseName(d.name) = NoError
    /\ validateLabel(d.options.columnLabel) = NoError

ValidFrame(f) ==
    /\ ValidDatabase(f.database)
    /\ validateFrameName(f.name) = NoError
    /\ validateLabel(f.options.rowLabel) = NoError

C16_ValidationPrecedesIO ==
    /\ last.op \in DatabaseOps \cup {"EnsureDatabaseExists"} =>
          ValidDatabase(last.arg[1])
    /\ last.op \in FrameOps \cup {"EnsureFrameExists"} =>
          ValidFrame(last.arg[1])
    /\ last.op = "Query" => ValidDatabase(last.arg[1])
    /\ last.op = "QueryWithOptions" => ValidDatabase(last.arg[2])

(* C14: GetHosts returns the hosts in registry order in a slice of its own: *)
(* whatever the caller stores into that slice, hosts and nextIndex stay as  *)
(* they were, so GetHost goes on as if GetHosts had not been called.        *)
C14_GetHostsCopy ==
    /\ last.op = "GetHosts" =>
          /\ last.value.elems = hosts
          /\ hosts = last.preHosts
          /\ nextIndex = last.preIndex
    /\ last.op = "CallerStores" =>
          /\ hosts = last.preHosts
          /\ nextIndex = last.preIndex
          /\ GetHost(hosts, nextIndex) = GetHost(last.preHosts, last.preIndex)

C14_Witness ==
    /\ last.op = "CallerStores"
    /\ Len(hosts) = 2
    /\ hosts[1] # hosts[2]
    /\ nextIndex = 1
    /\ last.value.elems[2] = "http://other:1"
    /\ last.value.elems[1] = hosts[1]

(* C17: a call whose deadline has passed, or that was cancelled, returns   *)
(* in the end; it does not wait forever on a server that stays silent.     *)
C17_DeadlineEndsCall ==
    (pending # NoPending /\ pending.deadlinePassed) ~> (pending = NoPending)

(* C18: GetHost calls of several goroutines on one Cluster of N >= 1       *)
(* hosts, with no AddHost: once K calls have returned, nextIndex is        *)
(* K mod N and the hosts returned are, counted with repetition, those K    *)
(* calls one after another return.                                         *)
Quiet == \A t \in Threads : race.pc[t] = "idle"

Count(seq, e) == Cardinality({k \in 1..Len(seq) : seq[k] = e})

Sequential(h, K) == [k \in 1..K |-> h[((k - 1) % Len(h)) + 1]]

C18_NoLostSelection ==
    (Quiet /\ race.adds = 0) =>
        /\ nextIndex = Len(returned) % Len(hosts)
        /\ \A e \in Endpoints \cup {None, WildPointer} :
              Count(returned, e) = Count(Sequential(hosts, Len(returned)), e)

(* C20: GetHost and AddHost calls of goroutines that take no lock: every   *)
(* GetHost that started on a non-empty Cluster returns one of the hosts,   *)
(* no index is out of range, and nextIndex stays below len(hosts).         *)
C20_InterleavingSafe ==
    /\ \A t \in Threads : race.pc[t] # "panic"
    /\ \A t \in Threads :
          race.pc[t] \in {"line35", "line36"} =>
              \E j \in 1..Len(hosts) : hosts[j] = race.loc[t].uri
    /\ \A k \in 1..Len(returned) :
          \E j \in 1..Len(hosts) : hosts[j] = returned[k]
    /\ race.len > 0 => nextIndex \in 0..(race.len - 1)

====
